---------------------------- MODULE Spec2Model ----------------------------
(***************************************************************************)
(* Model of the two scripts of the repository:                             *)
(*   generate_structure.py  - the Structure Generator (SpecGen)            *)
(*   watch_structure.py     - the Change Watcher      (SpecWatch)          *)
(***************************************************************************)
EXTENDS Integers, Sequences, FiniteSets, TLC

VARIABLES
    \* ---- Change Watcher (watch_structure.py) ----
    fs,             \* the file system as os.walk / os.path.getmtime report it
    last_modified,  \* the modification-time table (a dict: path -> mtime)
    changed,        \* the iteration's "changed" flag
    pc,             \* where the watcher is: "poll", "regen", "sleep", "stopped"
    calls,          \* subprocess.run calls made in the current iteration
    outcome,        \* how the last generator call ended ("none" before any)
    prevFs,         \* history: <<Seen>> as it was at the last walk, <<>> before
    prevTable,      \* history: the table as the last walk found it
    walkNote,       \* history: what the last walk started from (see Walk)
    \* ---- Structure Generator (generate_structure.py) ----
    tree,            \* the directory tree below the root path
    ignore_patterns, \* the ignore_patterns argument
    max_depth,       \* the max_depth argument
    structure,       \* the text generate_directory_structure returned
    file_count,      \* the number the summary line printed
    gpc              \* "idle" before main() has run on this input, "done" after

watchVars == <<fs, last_modified, changed, pc, calls, outcome, prevFs, prevTable, walkNote>>

genVars == <<tree, ignore_patterns, max_depth, structure, file_count, gpc>>

vars == <<watchVars, genVars>>

(***************************************************************************)
(*                           CHANGE WATCHER                                *)
(***************************************************************************)

\* Bound: modification timestamps are drawn from 1..MaxTime.
MaxTime == 2

Times == 1..MaxTime

\* watch_dirs, in the order the loop visits them.
watch_dirs == <<"src", "api", "config", "docs", "public">>

\* The directory names the walk never descends into.
PrunedDirs == {"node_modules", ".git", "dist", "build"}

\* The files the environment may create, in the order a directory listing
\* yields them.  A path is the sequence of its components.
\*   src/a.ts        a file of a watch directory
\*   docs/build      a FILE named like a pruned directory (files are not pruned)
\*   src/dist/x.js   a file under a pruned subdirectory
ListingOrder == << <<"src", "a.ts">>, <<"src", "dist", "x.js">>, <<"docs", "build">> >>

Files == {ListingOrder[i] : i \in 1..Len(ListingOrder)}

\* What the operating system answers for a path:
\*   absent      - no such directory entry
\*   unreadable  - listed by the walk, but os.path.getmtime raises OSError
\*                 (the file vanished mid-walk, a dangling link, no permission)
\*   ok          - listed, and getmtime returns mtime
Absent == [kind |-> "absent"]
Unreadable == [kind |-> "unreadable"]
Ok(t) == [kind |-> "ok", mtime |-> t]

FileStates == {Absent, Unreadable} \cup {Ok(t) : t \in Times}

Outcomes == {"exit_zero", "exit_nonzero", "launch_error"}

\* os.path.exists(watch_dir): the directory exists when something lives in it.
Exists(watch_dir) ==
    \E f \in Files : f[1] = watch_dir /\ fs[f].kind # "absent"

\* dirs[:] = [d for d in dirs if d not in [...]]: the walk reaches a file when
\* none of the directories between the watch directory and the file is pruned.
Pruned(f) ==
    \E i \in 2..(Len(f) - 1) : f[i] \in PrunedDirs

\* The files os.walk(watch_dir) yields, in listing order.
WalkFiles(watch_dir) ==
    SelectSeq(ListingOrder,
              LAMBDA f : f[1] = watch_dir /\ fs[f].kind # "absent" /\ ~Pruned(f))

\* file_path not in last_modified or last_modified[file_path] != current_modified
IsModified_NewOnly(table, f, m) ==
    f \notin DOMAIN table

IsModified(table, f, m) ==
    f \notin DOMAIN table \/ table[f] # m

\* last_modified[file_path] = current_modified
Record_Nothing(table, f, m) ==
    table

Record_SetDefault(table, f, m) ==
    [p \in DOMAIN table \cup {f} |-> IF p \in DOMAIN table THEN table[p] ELSE m]

Record(table, f, m) ==
    [p \in DOMAIN table \cup {f} |-> IF p = f THEN m ELSE table[p]]

\* except (OSError, IOError): pass
OnStatFailure_Drop(st, f) ==
    [table |-> [p \in DOMAIN st.table \ {f} |-> st.table[p]], changed |-> st.changed]

OnStatFailure_MarkChanged(st, f) ==
    [table |-> st.table, changed |-> TRUE]

OnStatFailure(st, f) ==
    st

\* The body of "for file in files": st is [table, changed] so far.
VisitFile(st, f) ==
    IF fs[f].kind = "unreadable"
    THEN OnStatFailure(st, f)
    ELSE LET current_modified == fs[f].mtime IN
         IF IsModified(st.table, f, current_modified)
         THEN [table |-> Record(st.table, f, current_modified), changed |-> TRUE]
         ELSE st

RECURSIVE VisitFiles(_, _)
VisitFiles(st, files) ==
    IF files = <<>> THEN st
    ELSE VisitFiles(VisitFile(st, Head(files)), Tail(files))

\* The body of "for watch_dir in watch_dirs".
RECURSIVE VisitDirs(_, _)
VisitDirs(st, dirs) ==
    IF dirs = <<>> THEN st
    ELSE LET d == Head(dirs) IN
         VisitDirs(IF Exists(d) THEN VisitFiles(st, WalkFiles(d)) ELSE st, Tail(dirs))

\* One walk of the loop body: changed = False, then every watch directory.
WalkResult_Rebuild ==
    VisitDirs([table |-> [p \in {q \in DOMAIN last_modified : fs[q] # Absent}
                            |-> last_modified[p]],
               changed |-> FALSE], watch_dirs)

WalkResult ==
    VisitDirs([table |-> last_modified, changed |-> FALSE], watch_dirs)

\* Where the loop goes when subprocess.run has returned or raised: both
\* branches of the inner try only print, then time.sleep(2).
AfterGenerator_StopOnFailure(result) ==
    IF result = "exit_zero" THEN "sleep" ELSE "stopped"

AfterGenerator(result) ==
    "sleep"

WatchInit ==
    /\ tree = {}
    /\ ignore_patterns = << >>
    /\ max_depth = 0
    /\ structure = << >>
    /\ file_count = 0
    /\ gpc = "idle"
    /\ fs \in [Files -> {Absent, Ok(1)}]
    /\ last_modified = << >>
    /\ changed = FALSE
    /\ pc = "poll"
    /\ calls = 0
    /\ outcome = "none"
    /\ prevFs = << >>
    /\ prevTable = << >>
    /\ walkNote = [sameFs |-> FALSE, onlyDeletions |-> FALSE,
                   afterFailure |-> FALSE, afterChange |-> FALSE]

\* History only: the part of the file system a walk can reach (the files of
\* the watch directories that are under no pruned subdirectory).
Reachable ==
    {f \in Files : (\E i \in 1..Len(watch_dirs) : watch_dirs[i] = f[1])
                     /\ (\A i \in 2..(Len(f) - 1) : f[i] \notin PrunedDirs)}

Seen == [f \in Reachable |-> fs[f]]

\* History only: since the last walk, tracked files were deleted and nothing
\* else happened to the reachable files.
OnlyDeletions ==
    /\ prevFs # << >>
    /\ \A f \in Reachable : fs[f] = prevFs[1][f] \/ fs[f] = Absent
    /\ \E f \in DOMAIN last_modified : fs[f] = Absent /\ prevFs[1][f] # Absent

\* Lines 22-41: the walk of one iteration and the test "if changed".
Walk ==
    /\ pc = "poll"
    /\ LET r == WalkResult IN
         /\ last_modified' = r.table
         /\ changed' = r.changed
         /\ pc' = IF r.changed THEN "regen" ELSE "sleep"
    /\ calls' = 0
    /\ prevFs' = <<Seen>>
    /\ prevTable' = last_modified
    /\ walkNote' = [sameFs |-> prevFs = <<Seen>>,
                    onlyDeletions |-> OnlyDeletions,
                    afterFailure |-> outcome \in {"exit_nonzero", "launch_error"},
                    afterChange |-> changed]
    /\ UNCHANGED <<fs, outcome>>
    /\ UNCHANGED genVars

\* Lines 42-51: subprocess.run and the report of its result.
Regenerate ==
    /\ pc = "regen"
    /\ \E result \in Outcomes :
         /\ outcome' = result
         /\ pc' = AfterGenerator(result)
    /\ calls' = calls + 1
    /\ UNCHANGED <<fs, last_modified, changed, prevFs, prevTable, walkNote>>
    /\ UNCHANGED genVars

\* Line 53: time.sleep(2), then the next iteration.
Sleep ==
    /\ pc = "sleep"
    /\ pc' = "poll"
    /\ UNCHANGED <<fs, last_modified, changed, calls, outcome, prevFs, prevTable, walkNote>>
    /\ UNCHANGED genVars

\* Lines 55-56: KeyboardInterrupt leaves the loop.
Interrupt ==
    /\ pc # "stopped"
    /\ pc' = "stopped"
    /\ UNCHANGED <<fs, last_modified, changed, calls, outcome, prevFs, prevTable, walkNote>>
    /\ UNCHANGED genVars

\* The environment: a file is created, touched, deleted or made unreadable.
\* A file under a pruned subdirectory is never read by the watcher: only its
\* presence is varied.
FileSystemEvent ==
    /\ pc # "stopped"
    /\ \E f \in Files, v \in FileStates :
         /\ v # fs[f]
         /\ Pruned(f) => v \in {Absent, Ok(1)}
         /\ fs' = [fs EXCEPT ![f] = v]
    /\ UNCHANGED <<last_modified, changed, pc, calls, outcome, prevFs, prevTable, walkNote>>
    /\ UNCHANGED genVars

WatchNext ==
    \/ Walk
    \/ Regenerate
    \/ Sleep
    \/ Interrupt
    \/ FileSystemEvent

SpecWatch == WatchInit /\ [][WatchNext]_vars

\* The watcher's logical state.
WatcherState ==
    CASE pc \in {"poll", "sleep"} -> "Idle-Polling"
      [] pc = "regen" -> "Regenerating"
      [] pc = "stopped" -> "Stopped"

(***************************************************************************)
(*                         STRUCTURE GENERATOR                             *)
(* A text is a sequence of characters; a path is the sequence of its       *)
(* components; a directory tree is a set of entries [path, kind] closed    *)
(* under parents.  The rendered structure is kept as a sequence of tokens, *)
(* each standing for the text Chars gives it.                              *)
(***************************************************************************)

\* Bounds: the entries AddEntry may bring a tree to, and the deepest path.
MaxEntries == 3

MaxTreeDepth == 3

MaxDepthArg == 2

\* max_depth=10, the default of generate_directory_structure.
DefaultMaxDepth == 10

\* Names of directory entries.
n_src == <<"s", "r", "c">>
n_docs == <<"d", "o", "c", "s">>
n_a_ts == <<"a", ".", "t", "s">>
n_b_ts == <<"b", ".", "t", "s">>
n_x_js == <<"x", ".", "j", "s">>
n_node_modules == <<"n", "o", "d", "e", "_", "m", "o", "d", "u", "l", "e", "s">>

\* The names AddEntry draws from.
AddNames == {n_src, n_docs, n_a_ts}

\* The characters in code-point order (Python compares str by code point).
CodePointOrder ==
    <<"\n", " ", "'", "*", "-", ".", "/", "<", "=", ">",
      "D", "S", "T", "_",
      "a", "b", "c", "d", "e", "f", "g", "h", "i", "j", "k", "l", "m",
      "n", "o", "p", "q", "r", "s", "t", "u", "v", "w", "x", "y", "z">>

Ord(c) == CHOOSE i \in 1..Len(CodePointOrder) : CodePointOrder[i] = c

\* str < str
RECURSIVE StrLess(_, _)
StrLess(a, b) ==
    IF b = << >> THEN FALSE
    ELSE IF a = << >> THEN TRUE
    ELSE IF Head(a) = Head(b) THEN StrLess(Tail(a), Tail(b))
    ELSE Ord(Head(a)) < Ord(Head(b))

\* The ignore list of main().
MainIgnorePatterns ==
    << <<"n", "o", "d", "e", "_", "m", "o", "d", "u", "l", "e", "s">>,
      <<".", "g", "i", "t">>,
      <<"d", "i", "s", "t">>,
      <<"b", "u", "i", "l", "d">>,
      <<".", "n", "e", "x", "t">>,
      <<"c", "o", "v", "e", "r", "a", "g", "e">>,
      <<".", "n", "y", "c", "_", "o", "u", "t", "p", "u", "t">>,
      <<"*", ".", "l", "o", "g">>,
      <<".", "D", "S", "_", "S", "t", "o", "r", "e">>,
      <<"T", "h", "u", "m", "b", "s", ".", "d", "b">>,
      <<"_", "_", "p", "y", "c", "a", "c", "h", "e", "_", "_">>,
      <<".", "p", "y", "t", "e", "s", "t", "_", "c", "a", "c", "h", "e">>,
      <<"v", "e", "n", "v">>,
      <<"e", "n", "v">>,
      <<".", "e", "n", "v">>,
      <<"g", "e", "n", "e", "r", "a", "t", "e", "_", "s", "t", "r", "u", "c", "t", "u", "r", "e", ".", "p", "y">>,
      <<"w", "a", "t", "c", "h", "_", "s", "t", "r", "u", "c", "t", "u", "r", "e", ".", "p", "y">>,
      <<"s", "t", "a", "r", "t", "-", "s", "t", "r", "u", "c", "t", "u", "r", "e", "-", "w", "a", "t", "c", "h", "e", "r", ".", "b", "a", "t">> >>

\* The ignore lists the generator is run with.
PatternLists ==
    { << >>,
      MainIgnorePatterns,
      << <<"c", "/", "a">> >>,
      << <<".", "t", "s">>, <<"o", "c">> >> }

\* The tree of the scenario: src/a.ts, src/b.ts, node_modules/x.js, docs/.
ScenarioTree ==
    { [path |-> <<n_src>>, kind |-> "dir"],
      [path |-> <<n_src, n_a_ts>>, kind |-> "file"],
      [path |-> <<n_src, n_b_ts>>, kind |-> "file"],
      [path |-> <<n_node_modules>>, kind |-> "dir"],
      [path |-> <<n_node_modules, n_x_js>>, kind |-> "file"],
      [path |-> <<n_docs>>, kind |-> "dir"] }

\* kind "dir": a directory; "denied": a directory whose listing raises
\* PermissionError; "file": anything else.
Kinds == {"file", "dir", "denied"}

Paths(t) == {e.path : e \in t}

KindOf(t, p) == (CHOOSE e \in t : e.path = p).kind

Parent(p) == SubSeq(p, 1, Len(p) - 1)

Name(p) == p[Len(p)]

\* Path(root_path).iterdir(): the entries of directory p.
Children(t, p) == {q \in Paths(t) : Len(q) = Len(p) + 1 /\ Parent(q) = p}

\* sorted(...): siblings compare by their last component.
RECURSIVE Sorted_Reversed(_)
Sorted_Reversed(S) ==
    IF S = {} THEN << >>
    ELSE LET m == CHOOSE x \in S : \A y \in S : x = y \/ StrLess(Name(y), Name(x))
         IN <<m>> \o Sorted_Reversed(S \ {m})

RECURSIVE Sorted(_)
Sorted(S) ==
    IF S = {} THEN << >>
    ELSE LET m == CHOOSE x \in S : \A y \in S : x = y \/ StrLess(Name(x), Name(y))
         IN <<m>> \o Sorted(S \ {m})

\* str(path) for an entry below root_path ".": the components joined by "/".
RECURSIVE PathStr(_)
PathStr(p) ==
    IF p = << >> THEN << >>
    ELSE IF Len(p) = 1 THEN p[1]
    ELSE p[1] \o <<"/">> \o PathStr(Tail(p))

\* pattern in path_str
RECURSIVE FindFrom(_, _, _)
FindFrom(text, pat, i) ==
    IF i + Len(pat) - 1 > Len(text) THEN 0
    ELSE IF SubSeq(text, i, i + Len(pat) - 1) = pat THEN i
    ELSE FindFrom(text, pat, i + 1)

Contains(text, pat) == FindFrom(text, pat, 1) # 0

\* should_ignore(path, ignore_patterns)
RECURSIVE AnyPatternIn(_, _)
AnyPatternIn(path_str, patterns) ==
    IF patterns = << >> THEN FALSE
    ELSE IF Contains(path_str, Head(patterns)) THEN TRUE
    ELSE AnyPatternIn(path_str, Tail(patterns))

should_ignore_NameOnly(path, patterns) ==
    AnyPatternIn(Name(path), patterns)

should_ignore(path, patterns) ==
    AnyPatternIn(PathStr(path), patterns)

\* The pieces of text the f-strings produce.
FileTag(n) == [t |-> "file", name |-> n]
FolderOpen(n) == [t |-> "open", name |-> n]
FolderClose == [t |-> "close"]
FolderEmpty(n) == [t |-> "empty", name |-> n]
NL == [t |-> "nl"]

Chars(tok) ==
    CASE tok.t = "file" -> <<"<", "f", "i", "l", "e", " ", "n", "a", "m", "e", "=", "'">> \o tok.name \o <<"'", "/", ">">>
      [] tok.t = "open" -> <<"<", "f", "o", "l", "d", "e", "r", " ", "n", "a", "m", "e", "=", "'">> \o tok.name \o <<"'", ">">>
      [] tok.t = "close" -> <<"<", "/", "f", "o", "l", "d", "e", "r", ">">>
      [] tok.t = "empty" -> <<"<", "f", "o", "l", "d", "e", "r", " ", "n", "a", "m", "e", "=", "'">> \o tok.name \o <<"'", "/", ">">>
      [] tok.t = "nl" -> <<"\n">>

RECURSIVE Flatten(_)
Flatten(toks) ==
    IF toks = << >> THEN << >> ELSE Chars(Head(toks)) \o Flatten(Tail(toks))

\* "\n".join(items)
RECURSIVE Join(_)
Join(items) ==
    IF items = << >> THEN << >>
    ELSE IF Len(items) = 1 THEN items[1]
    ELSE items[1] \o <<NL>> \o Join(Tail(items))

\* text.strip(): leading and trailing whitespace removed.
RECURSIVE Strip(_)
Strip(toks) ==
    IF toks = << >> THEN << >>
    ELSE IF Head(toks) = NL THEN Strip(Tail(toks))
    ELSE IF toks[Len(toks)] = NL THEN Strip(SubSeq(toks, 1, Len(toks) - 1))
    ELSE toks

\* if current_depth >= max_depth
DepthReached_OffByOne(current_depth, maxd) == current_depth > maxd

DepthReached(current_depth, maxd) == current_depth >= maxd

\* generate_directory_structure(root_path, ignore_patterns, max_depth,
\* current_depth) on tree t, and the body of its for loop over the sorted
\* entries, which appends to items.
RECURSIVE generate_directory_structure(_, _, _, _, _)
RECURSIVE LoopItems(_, _, _, _, _, _)
LoopItems(t, entries, patterns, maxd, depth, items) ==
    IF entries = << >> THEN items
    ELSE LET item == Head(entries)
             rest == Tail(entries)
         IN IF should_ignore(item, patterns)
            THEN LoopItems(t, rest, patterns, maxd, depth, items)
            ELSE IF KindOf(t, item) # "file"
            THEN LET sub_structure ==
                         generate_directory_structure(t, item, patterns, maxd, depth + 1)
                 IN IF Strip(sub_structure) # << >>
                    THEN LoopItems(t, rest, patterns, maxd, depth,
                             Append(items, <<FolderOpen(Name(item)), NL>>
                                            \o sub_structure \o <<FolderClose>>))
                    ELSE LoopItems(t, rest, patterns, maxd, depth,
                             Append(items, <<FolderEmpty(Name(item))>>))
            ELSE LoopItems(t, rest, patterns, maxd, depth,
                     Append(items, <<FileTag(Name(item))>>))

generate_directory_structure(t, root_path, patterns, maxd, current_depth) ==
    IF DepthReached(current_depth, maxd) THEN << >>
    ELSE IF root_path # << >> /\ KindOf(t, root_path) = "denied"
         THEN Join(<< >>)
         ELSE Join(LoopItems(t, Sorted(Children(t, root_path)), patterns, maxd,
                             current_depth, << >>))

\* text.split(sep): the pieces of text between the occurrences of sep, found
\* from the left.
RECURSIVE Split(_, _)
Split(text, sep) ==
    LET i == FindFrom(text, sep, 1) IN
    IF i = 0 THEN <<text>>
    ELSE <<SubSeq(text, 1, i - 1)>> \o Split(SubSeq(text, i + Len(sep), Len(text)), sep)

\* len(structure.split('<file')), the number of the summary line.
SummaryCount(toks) == Len(Split(Flatten(toks), <<"<", "f", "i", "l", "e">>))

\* The max_depth arguments the generator is run with.
DepthArgs == (0..MaxDepthArg) \cup {DefaultMaxDepth}

GenInit ==
    /\ tree \in {{}, ScenarioTree}
    /\ ignore_patterns \in PatternLists
    /\ max_depth \in DepthArgs
    /\ structure = << >>
    /\ file_count = 0
    /\ gpc = "idle"
    /\ fs = [f \in Files |-> Absent]
    /\ last_modified = << >>
    /\ changed = FALSE
    /\ pc = "poll"
    /\ calls = 0
    /\ outcome = "none"
    /\ prevFs = << >>
    /\ prevTable = << >>
    /\ walkNote = [sameFs |-> FALSE, onlyDeletions |-> FALSE,
                   afterFailure |-> FALSE, afterChange |-> FALSE]

\* Nothing has been generated for the current tree and configuration.
Fresh ==
    /\ structure' = << >>
    /\ file_count' = 0
    /\ gpc' = "idle"

\* The environment: an entry appears in the root or in a listable directory.
AddEntry ==
    /\ Cardinality(tree) < MaxEntries
    /\ \E parent \in {<< >>} \cup {p \in Paths(tree) : KindOf(tree, p) = "dir"},
          n \in AddNames, k \in Kinds :
         /\ Len(parent) < MaxTreeDepth
         /\ Append(parent, n) \notin Paths(tree)
         /\ tree' = tree \cup {[path |-> Append(parent, n), kind |-> k]}
    /\ Fresh
    /\ UNCHANGED <<ignore_patterns, max_depth>>
    /\ UNCHANGED watchVars

\* The environment: an entry without entries below it disappears.
RemoveEntry ==
    /\ \E e \in tree :
         /\ Children(tree, e.path) = {}
         /\ tree' = tree \ {e}
    /\ Fresh
    /\ UNCHANGED <<ignore_patterns, max_depth>>
    /\ UNCHANGED watchVars

\* main(): the structure is generated and the summary line printed.
RunGenerator ==
    /\ gpc = "idle"
    /\ structure' = generate_directory_structure(tree, << >>, ignore_patterns, max_depth, 0)
    /\ file_count' = SummaryCount(structure')
    /\ gpc' = "done"
    /\ UNCHANGED <<tree, ignore_patterns, max_depth>>
    /\ UNCHANGED watchVars

GenNext ==
    \/ AddEntry
    \/ RemoveEntry
    \/ RunGenerator

SpecGen == GenInit /\ [][GenNext]_vars

(***************************************************************************)
(*                  CLAIMS ABOUT THE STRUCTURE GENERATOR                   *)
(***************************************************************************)

\* The tags of a rendered text in order, each with the path its nesting
\* gives it: a tag inside <folder name='X'> ... </folder> lies below X.
RECURSIVE Parse(_, _)
Parse(toks, stack) ==
    IF toks = << >> THEN << >>
    ELSE LET tok == Head(toks) IN
         CASE tok.t \in {"file", "empty"} ->
                <<[path |-> Append(stack, tok.name), tag |-> tok.t]>>
                    \o Parse(Tail(toks), stack)
           [] tok.t = "open" ->
                <<[path |-> Append(stack, tok.name), tag |-> "open"]>>
                    \o Parse(Tail(toks), Append(stack, tok.name))
           [] tok.t = "close" -> Parse(Tail(toks), Parent(stack))
           [] tok.t = "nl" -> Parse(Tail(toks), stack)

Rendered == Parse(structure, << >>)

RenderedPaths == {Rendered[i].path : i \in 1..Len(Rendered)}

\* pat occurs in text.
HasSubstring(text, pat) ==
    \E i \in 1..(Len(text) + 1) :
        /\ i + Len(pat) - 1 <= Len(text)
        /\ SubSeq(text, i, i + Len(pat) - 1) = pat

\* The path of an entry as text.
RECURSIVE PathText(_)
PathText(p) ==
    IF p = << >> THEN << >>
    ELSE IF Len(p) = 1 THEN p[1]
    ELSE PathText(Parent(p)) \o <<"/">> \o Name(p)

\* The path of the entry contains a pattern of the ignore list.
Matches(p) ==
    \E k \in 1..Len(ignore_patterns) : HasSubstring(PathText(p), ignore_patterns[k])

\* The entry matches, or lies below an entry that matches.
Excluded(p) ==
    \E k \in 1..Len(p) : Matches(SubSeq(p, 1, k))

\* C1: no entry of the tree whose path contains a pattern of the ignore list,
\* and no descendant of such an entry, has a tag in the returned text.
C1_IgnoredAbsent ==
    gpc = "done" =>
        \A e \in tree : Excluded(e.path) => e.path \notin RenderedPaths

\* An ignored directory holds an entry that matches no pattern by its own
\* name, and something else is rendered.
C1_Witness ==
    /\ gpc = "done"
    /\ Rendered # << >>
    /\ \E d, e \in tree :
         /\ d.kind = "dir"
         /\ Matches(d.path)
         /\ Parent(e.path) = d.path
         /\ \A k \in 1..Len(ignore_patterns) :
                ~HasSubstring(Name(e.path), ignore_patterns[k])

\* The tree has entries below the cutoff.
Deeper == \E p \in Paths(tree) : Len(p) > max_depth

Height == IF tree = {} THEN 0
          ELSE CHOOSE n \in 0..Cardinality(tree) :
                   /\ \E p \in Paths(tree) : Len(p) = n
                   /\ \A p \in Paths(tree) : Len(p) <= n

\* The tags of the text generated with no effective depth limit.
Unlimited ==
    Parse(generate_directory_structure(tree, << >>, ignore_patterns, Height + 1, 0), << >>)

AboveCutoff(r) == Len(r.path) <= max_depth

UnlimitedAbove == SelectSeq(Unlimited, AboveCutoff)

\* C5 as claimed: for a tree deeper than max_depth, the tags of the entries
\* above the cutoff are those of the rendering without a depth limit (same
\* tags, nesting and order), and no entry below the cutoff has a tag.
C5_AsClaimed ==
    (gpc = "done" /\ Deeper) => Rendered = UnlimitedAbove

\* C5 amended: for a tree deeper than max_depth, the entries with a tag are
\* the entries above the cutoff that have a tag without a depth limit, in the
\* same order and nesting and with the same tag, except that a directory of
\* the last rendered level is self-closing also where the rendering without
\* a limit wraps its children; no entry below the cutoff has a tag.
C5_DepthTruncation ==
    (gpc = "done" /\ Deeper) =>
        Rendered = [i \in 1..Len(UnlimitedAbove) |->
                      IF Len(UnlimitedAbove[i].path) = max_depth
                         /\ UnlimitedAbove[i].tag = "open"
                      THEN [UnlimitedAbove[i] EXCEPT !.tag = "empty"]
                      ELSE UnlimitedAbove[i]]

\* A truncated rendering two levels deep: a directory of the last level lost
\* its children, a directory above the last level still wraps its own.
C5_Witness ==
    /\ gpc = "done"
    /\ Deeper
    /\ \E i, j \in 1..Len(Rendered) :
         /\ Rendered[i].tag = "empty"
         /\ UnlimitedAbove[i].tag = "open"
         /\ Rendered[j].tag = "open"

\* The entry is reached by the walk: above the cutoff, neither it nor a
\* directory above it is ignored, and every directory above it can be listed.
Visible(p) ==
    /\ p \in Paths(tree)
    /\ Len(p) <= max_depth
    /\ ~Excluded(p)
    /\ \A k \in 1..(Len(p) - 1) : KindOf(tree, SubSeq(p, 1, k)) = "dir"

\* The text is made of tags separated by single newlines, a newline after
\* every opening tag, none before a closing tag.
Layout(toks) ==
    /\ toks # << >> => (toks[1].t \in {"file", "empty", "open"}
                         /\ toks[Len(toks)].t \in {"file", "empty", "close"})
    /\ \A i \in 1..(Len(toks) - 1) :
         LET a == toks[i].t
             b == toks[i + 1].t
         IN \/ a \in {"file", "empty", "close"} /\ b \in {"nl", "close"}
            \/ a = "open" /\ b = "nl"
            \/ a = "nl" /\ b \in {"file", "empty", "open"}
    /\ Cardinality({i \in 1..Len(toks) : toks[i].t = "open"})
         = Cardinality({i \in 1..Len(toks) : toks[i].t = "close"})

ScenarioText ==
    <<
       "<", "f", "o", "l", "d", "e", "r", " ", "n", "a", "m", "e", "=", "'", "d", "o",
       "c", "s", "'", "/", ">", "\n", "<", "f", "o", "l", "d", "e", "r", " ", "n", "a",
       "m", "e", "=", "'", "s", "r", "c", "'", ">", "\n", "<", "f", "i", "l", "e", " ",
       "n", "a", "m", "e", "=", "'", "a", ".", "t", "s", "'", "/", ">", "\n", "<", "f",
       "i", "l", "e", " ", "n", "a", "m", "e", "=", "'", "b", ".", "t", "s", "'", "/",
       ">", "<", "/", "f", "o", "l", "d", "e", "r", ">" >>

\* C6: every entry the walk reaches has exactly one tag, nested below the tag
\* of its directory; a file has <file name='X'/>, a directory <folder
\* name='X'> ... </folder> when an entry below it is rendered and <folder
\* name='X'/> when none is; siblings are in ascending order of their names;
\* and the scenario tree under main's ignore list renders as docs
\* self-closing, then src wrapping a.ts and b.ts, without node_modules.
C6_RenderingRule ==
    gpc = "done" =>
        /\ RenderedPaths = {p \in Paths(tree) : Visible(p)}
        /\ Len(Rendered) = Cardinality(RenderedPaths)
        /\ \A i \in 1..Len(Rendered) :
             LET p == Rendered[i].path IN
             Rendered[i].tag =
                 IF KindOf(tree, p) = "file" THEN "file"
                 ELSE IF \E q \in Children(tree, p) : Visible(q) THEN "open"
                 ELSE "empty"
        /\ \A i, j \in 1..Len(Rendered) :
             (i < j /\ Parent(Rendered[i].path) = Parent(Rendered[j].path)) =>
                 StrLess(Name(Rendered[i].path), Name(Rendered[j].path))
        /\ Layout(structure)
        /\ (tree = ScenarioTree /\ ignore_patterns = MainIgnorePatterns
              /\ max_depth = DefaultMaxDepth) =>
                 Flatten(structure) = ScenarioText

C6_Witness ==
    /\ gpc = "done"
    /\ tree = ScenarioTree
    /\ ignore_patterns = MainIgnorePatterns
    /\ max_depth = DefaultMaxDepth
    /\ Flatten(structure) = ScenarioText

\* The occurrences of pat in text.
Occurrences(text, pat) ==
    Cardinality({i \in 1..Len(text) : i + Len(pat) - 1 <= Len(text)
                                       /\ SubSeq(text, i, i + Len(pat) - 1) = pat})

\* C7: the number of the summary line is the number of occurrences of
\* "<file" in the rendered text, for every rendered tree.
C7_SummaryCount ==
    gpc = "done" => file_count = Occurrences(Flatten(structure), <<"<", "f", "i", "l", "e">>)

(***************************************************************************)
(*                     CLAIMS ABOUT THE CHANGE WATCHER                     *)
(* The history variables describe the last walk: prevFs[1] is what it saw, *)
(* prevTable the table it started from, walkNote how it related to the     *)
(* iteration before.  Only Walk writes them, together with last_modified   *)
(* and changed.                                                            *)
(***************************************************************************)

Walked == prevFs # << >>

\* The last walk met file f with a readable timestamp that the table did not
\* hold for it.
MetModified(f) ==
    /\ f \in DOMAIN prevTable
    /\ prevFs[1][f].kind = "ok"
    /\ prevFs[1][f].mtime # prevTable[f]

MetNew(f) ==
    /\ f \notin DOMAIN prevTable
    /\ prevFs[1][f].kind = "ok"

\* C2: when the walk meets a file that the table already records (a file of
\* a watch directory, under no pruned subdirectory) with a timestamp other
\* than the recorded one, the iteration is marked changed and the generator
\* is invoked exactly once in it, however many files changed: no call is made
\* before the walk ends, one call has been made when the iteration sleeps.
C2_Detection ==
    /\ calls \in {0, 1}
    /\ (Walked /\ \E f \in Reachable : MetModified(f)) =>
          /\ changed
          /\ pc = "regen" => calls = 0
          /\ pc \in {"sleep", "poll"} => calls = 1

C2_Witness ==
    /\ Walked
    /\ pc = "sleep"
    /\ calls = 1
    /\ \E f, g \in Reachable : f # g /\ MetModified(f) /\ MetModified(g)

\* C3: when the reachable file system is the same at two consecutive walks,
\* the second iteration does not invoke the generator, also when the first
\* iteration ran it.
C3_NonDetection ==
    walkNote.sameFs => (~changed /\ pc # "regen" /\ calls = 0)

C3_Witness ==
    /\ walkNote.sameFs
    /\ walkNote.afterChange
    /\ pc = "sleep"
    /\ \E f \in Reachable : prevFs[1][f].kind = "ok"

\* What a single step may do to the watcher's logical state.
C4_Step ==
    /\ (WatcherState' = "Regenerating" /\ WatcherState # "Regenerating") =>
          (WatcherState = "Idle-Polling" /\ changed' /\ last_modified' # last_modified)
    /\ (WatcherState = "Regenerating" /\ calls' # calls) =>
          WatcherState' = "Idle-Polling"
    /\ (WatcherState = "Regenerating" /\ WatcherState' # "Regenerating") =>
          WatcherState' \in {"Idle-Polling", "Stopped"}
    /\ (WatcherState' = "Stopped" /\ WatcherState # "Stopped") =>
          (calls' = calls /\ outcome' = outcome)
    /\ WatcherState = "Stopped" => WatcherState' = "Stopped"

\* C4: the watcher starts in Idle-Polling; it enters Regenerating only from
\* Idle-Polling in a step that detected a change; from Regenerating the
\* return of the generator call leads to Idle-Polling, and can for each of
\* its three outcomes; and a step into Stopped is never a return of the
\* generator (it leaves the call count and the recorded outcome alone).
C4_StateMachine ==
    /\ WatcherState = "Idle-Polling"
    /\ [](pc = "regen" =>
            \A o \in Outcomes : ENABLED (Regenerate /\ outcome' = o /\ pc' = "sleep"))
    /\ [][C4_Step]_vars

\* Back in Idle-Polling after a generator that could not be launched.
C4_Witness ==
    /\ WatcherState = "Idle-Polling"
    /\ outcome = "launch_error"
    /\ calls = 1

\* C8: a file whose timestamp read failed in the walk keeps its table entry
\* as it was (or stays without one); the iteration is marked changed exactly
\* when some other file was new or modified; and every readable file of the
\* same walk has its timestamp recorded.
C8_StatFailureSkipped ==
    Walked =>
      \A f \in Reachable : prevFs[1][f] = Unreadable =>
          /\ (f \in DOMAIN last_modified) = (f \in DOMAIN prevTable)
          /\ f \in DOMAIN prevTable => last_modified[f] = prevTable[f]
          /\ changed = (\E g \in Reachable \ {f} : MetModified(g) \/ MetNew(g))
          /\ \A g \in Reachable \ {f} : prevFs[1][g].kind = "ok" =>
                (g \in DOMAIN last_modified /\ last_modified[g] = prevFs[1][g].mtime)

C8_Witness ==
    /\ Walked
    /\ changed
    /\ \E f, g \in Reachable :
         /\ prevFs[1][f] = Unreadable
         /\ f \in DOMAIN prevTable
         /\ MetModified(g)

\* What a single step may do to the modification-time table.
C9_Step ==
    /\ DOMAIN last_modified \subseteq DOMAIN last_modified'
    /\ (pc = "poll" /\ pc' \in {"regen", "sleep"} /\ OnlyDeletions) =>
          (~changed' /\ pc' = "sleep" /\ last_modified' = last_modified)

\* C9: no step removes a key from the modification-time table; and a walk
\* that finds tracked files deleted and nothing else different marks no
\* change and invokes no generator.
C9_TableNeverShrinks == [][C9_Step]_vars

\* An iteration that found a tracked file deleted went to sleep.
C9_Witness ==
    /\ walkNote.onlyDeletions
    /\ pc = "sleep"
    /\ \E f \in DOMAIN last_modified : fs[f] = Absent

\* C10: the timestamps a walk reads are in the table before the generator is
\* called; and a walk that follows a failed generator call and sees the file
\* system the previous walk saw marks no change and calls no generator.
C10_NoRetry ==
    /\ (pc = "regen" /\ calls = 0) =>
          \A f \in Reachable : prevFs[1][f].kind = "ok" =>
              (f \in DOMAIN last_modified /\ last_modified[f] = prevFs[1][f].mtime)
    /\ (walkNote.afterFailure /\ walkNote.sameFs) =>
          (~changed /\ pc # "regen" /\ calls = 0)

C10_Witness ==
    /\ walkNote.afterFailure
    /\ walkNote.afterChange
    /\ walkNote.sameFs
    /\ pc = "sleep"
    /\ outcome \in {"exit_nonzero", "launch_error"}
    /\ \E f \in Reachable : MetModified(f) \/ prevFs[1][f].kind = "ok"

=============================================================================
